---------------------------- MODULE Spec2Model ----------------------------
(***************************************************************************)
(* Model of the trajectory kinematics engine of hmnaik/tagCalibration.     *)
(*                                                                         *)
(*   - the live tracker (src/live_tracker.py): the capture loop of         *)
(*     LiveArucoTracker.run_live_tracking, its SPACE/Q key handling and    *)
(*     process_frame, which appends pose samples while recording;          *)
(*   - the offline analyzer (src/trajectory_analysis.py):                  *)
(*     TrajectoryAnalyzer.load_data and calculate_metrics;                 *)
(*   - the offline tracker (src/aruco_tracker.py): ArucoTracker and its    *)
(*     process_video, called on one video after another.                   *)
(*                                                                         *)
(* Wall-clock times and coordinates are floats in the program.  The live   *)
(* tracker only subtracts two clock readings, so its clock is modelled in  *)
(* integer ticks.  The analyzer divides and takes square roots: its values *)
(* are exact rationals extended with the IEEE non-finite values NaN, +inf  *)
(* and -inf, and its inputs are drawn from collinear lattices on which     *)
(* every square root the code takes is rational.                           *)
(***************************************************************************)
EXTENDS Integers, Sequences, FiniteSets, TLC

VARIABLES
    \* ---- LiveArucoTracker (src/live_tracker.py) ----
    trajectory_data,        \* self.trajectory_data: list of sample dicts
    frame_count,            \* self.frame_count
    start_time,             \* self.start_time (Unset = None)
    recording,              \* self.recording
    recording_start_time,   \* self.recording_start_time (Unset = None)
    total_frames,           \* local total_frames of run_live_tracking
    detected,               \* local detected: process_frame's second result
    rec_time,               \* local rec_time of the status overlay (NotComputed
                            \*   when the iteration did not compute it)
    csv_file,               \* rows written by save_trajectory (NoFile: not written)
    error,                  \* exception that ended the loop ("none": no exception)
    now,                    \* last value returned by time.time()
    pc,                     \* position in run_live_tracking
    \* history of the live tracker (not program state)
    detections,             \* what detectMarkers and the pose estimate returned for
                            \*   the frame of the current loop iteration (lines 159,
                            \*   167); empty once the iteration has handled its key
    provenance,             \* per stored sample: wall time and episode of its append
    episode,                \* number of Idle->Recording toggles so far
    discarded,              \* samples dropped by the last Idle->Recording toggle
    \* ---- TrajectoryAnalyzer (src/trajectory_analysis.py) ----
    csv_input,              \* the table held by the CSV file at self.csv_path
    df,                     \* self.df (NoTable = None)
    markers,                \* self.markers: marker id -> that marker's sorted rows
    ret,                    \* the last call on the analyzer: its arguments, what it
                            \*   printed as a warning, raised and returned
    \* ---- ArucoTracker (src/aruco_tracker.py) ----
    off_data,               \* self.trajectory_data
    fps,                    \* self.fps (Unset: the attribute does not exist yet)
    frame_number,           \* local frame_number of process_video
    off_csv,                \* the file at output_csv (NoFile: not written)
    off_pc,                 \* position in process_video
    videos                  \* process_video calls made so far (history)

liveVars == <<trajectory_data, frame_count, start_time, recording,
              recording_start_time, total_frames, detected, detections, rec_time,
              csv_file, error, now, pc, provenance, episode, discarded>>
anVars == <<csv_input, df, markers, ret>>
offVars == <<off_data, fps, frame_number, off_csv, off_pc, videos>>
vars == <<liveVars, anVars, offVars>>

-----------------------------------------------------------------------------
(* Bounds of the model *)

\* frames read from the camera in one run of the capture loop
MaxFrames == 4
\* largest wall-clock reading, in ticks
MaxClock == 2

(* Values standing for Python's None and for "no value" *)
Unset == -1
NotComputed == Unset
\* no file at the output path: neither a header nor rows
NoFile == [columns |-> {}, rows |-> <<>>]

(* Input domains *)
\* time.time() advances by 0 or 1 tick between two consecutive readings
Ticks == {0, 1}
\* A float that is a whole number k is written k in the tracker; a float that is
\* not is written as the decimal [int, frac] that repr() prints for it, an integer
\* part and the digits after the point.  The trackers hold such floats in the x
\* coordinate: 0.25, 0.5, and 0.1 + 0.2, whose repr() is 0.30000000000000004.
Quarter == [int |-> 0, frac |-> <<2, 5>>]
Half == [int |-> 0, frac |-> <<5>>]
ThreeTenthsAndAnUlp ==
    [int |-> 0, frac |-> <<3, 0, 0, 0, 0, 0, 0, 0, 0, 0, 0, 0, 0, 0, 0, 0, 4>>]
\* (marker id, tvec, rvec) as detectMarkers / estimatePoseSingleMarkers return them
Detection == { [marker_id |-> 7, tvec |-> <<Quarter, 0, 0>>, rvec |-> <<0, 0, 0>>],
               [marker_id |-> 7, tvec |-> <<Half, 2, 2>>, rvec |-> <<2, 1, 2>>],
               [marker_id |-> 9, tvec |-> <<ThreeTenthsAndAnUlp, 4, 4>>,
                                 rvec |-> <<0, 0, 0>>] }
\* the detections of one frame, in the order detectMarkers returns them: none,
\* one marker, or markers 7 and 9 in either order
FrameInputs ==
    {<<>>} \cup { <<d>> : d \in Detection }
           \cup { p \in Detection \X Detection : p[1].marker_id /= p[2].marker_id }

-----------------------------------------------------------------------------
(* LiveArucoTracker.process_frame *)

\* the dict appended for detection d (lines 181-191)
Sample(timestamp, frame, d) ==
    [timestamp |-> timestamp, frame |-> frame, marker_id |-> d.marker_id,
     x |-> d.tvec[1], y |-> d.tvec[2], z |-> d.tvec[3],
     rx |-> d.rvec[1], ry |-> d.rvec[2], rz |-> d.rvec[3]]

\* a loop that walks the detections of a frame from the last to the first
AppendSamples_Reversed(data, dets, timestamp, frame) ==
    data \o [i \in 1..Len(dets) |->
                 Sample(timestamp, frame, dets[Len(dets) + 1 - i])]

\* the for loop over ids (lines 177-191): one sample per detection, in order
AppendSamples(data, dets, timestamp, frame) ==
    data \o [i \in 1..Len(dets) |-> Sample(timestamp, frame, dets[i])]

\* a process_frame that appends whenever a marker is detected
StoresSamples_IgnoringRecording(rec, dets) == Len(dets) > 0

\* does process_frame reach the append (lines 164 and 172)?
StoresSamples(rec, dets) == Len(dets) > 0 /\ rec

\* a timestamp taken from the tracker's start instead of the recording's
RelativeTimestamp_FromTrackerStart(current_time, tracker_start, rec_start) ==
    current_time - tracker_start

\* a timestamp counted back from the current time
RelativeTimestamp_Negated(current_time, tracker_start, rec_start) ==
    rec_start - current_time

\* timestamp relative to recording start (line 175)
RelativeTimestamp(current_time, tracker_start, rec_start) ==
    current_time - rec_start

\* trajectory_data after process_frame (lines 164-191)
StoredAfterFrame(data, rec, dets, timestamp, frame) ==
    IF StoresSamples(rec, dets) THEN AppendSamples(data, dets, timestamp, frame)
    ELSE data

\* an overlay that computes "Rec Time" in every iteration
OverlayShowsRecTime_Always(rec) == TRUE

\* does the status overlay compute "Rec Time" (line 293)?
OverlayShowsRecTime(rec) == rec

\* time.time() - self.recording_start_time (lines 175 and 299), the program's one
\* expression for the recording-relative elapsed time, evaluated at time t: float
\* minus None raises TypeError, and any origin that is set gives a number
Elapsed(rec_start, t) ==
    IF rec_start = Unset THEN [raised |-> "TypeError", value |-> NotComputed]
    ELSE [raised |-> "none", value |-> t - rec_start]

(* LiveArucoTracker.run_live_tracking: key handling *)

\* a toggle that keeps the previous episode's samples
DataAfterToggle_NoClear(rec, data) == data
\* a toggle that clears whenever recording stops as well
DataAfterToggle_ClearOnStop(rec, data) == <<>>

\* trajectory_data after SPACE, rec being the flipped flag (lines 320-323)
DataAfterToggle(rec, data) == IF rec THEN <<>> ELSE data
\* a toggle that resets the frame counter when recording stops as well
FrameCountAfterToggle_ResetOnStop(rec, fc) == 0
\* a toggle that never sets the origin of the recording
StartAfterToggle_Never(rec, old, t) == old

\* frame_count after SPACE (lines 321, 324)
FrameCountAfterToggle(rec, fc) == IF rec THEN 0 ELSE fc
\* recording_start_time after SPACE, t being time.time() (lines 321, 325)
StartAfterToggle(rec, old, t) == IF rec THEN t ELSE old

(* The CSV text of a sample *)
(* A cell of the file is the text [int, frac] of its digits, frac being empty    *)
(* when the text has no decimal point.  Only values that are not negative are    *)
(* written.                                                                      *)

\* the header both save_trajectory methods write (line 210)
Fieldnames == {"timestamp", "frame", "marker_id", "x", "y", "z", "rx", "ry", "rz"}
\* the columns whose values are ints in the sample dict (lines 183-184)
IntFields == {"frame", "marker_id"}

\* the field in which the trackers of the model hold floats that are not whole
FractionalFields == {"x"}
\* str() of a float that is a whole number: repr() prints k.0
ReprWhole(k) == [int |-> k, frac |-> <<0>>]
\* str() of a float that is not: the digits repr() prints
ReprFractional(v) == v
\* str() of an int
StrInt(n) == [int |-> n, frac |-> <<>>]
\* the cell csv.DictWriter.writerow writes for a field of a sample (line 215)
StrOf(field, v) ==
    IF field \in IntFields THEN StrInt(v)
    ELSE IF field \in FractionalFields THEN ReprFractional(v)
    ELSE ReprWhole(v)
\* writer.writerow(data_point) (line 215)
WriteRow(sample) == [c \in Fieldnames |-> StrOf(c, sample[c])]
\* the file written by writeheader and the writerow loop (lines 208-215)
WriteCsv(data) ==
    [columns |-> Fieldnames, rows |-> [i \in 1..Len(data) |-> WriteRow(data[i])]]

\* a save_trajectory that writes the header of an empty store
SaveTrajectory_AlwaysWrites(data, file) == WriteCsv(data)
\* save_trajectory (lines 198-218): the file after the call
SaveTrajectory(data, file) == IF data = <<>> THEN file ELSE WriteCsv(data)
\* what save_trajectory returns (lines 206, 218)
SaveReturns(data) == data /= <<>>
\* the save at the end of run_live_tracking (lines 347-349)
SaveAtExit(data, file) == IF data /= <<>> THEN SaveTrajectory(data, file) ELSE file

-----------------------------------------------------------------------------
(* The live tracker as a state machine *)

LiveInit ==
    /\ trajectory_data = <<>>
    /\ frame_count = 0
    /\ start_time = Unset
    /\ recording = FALSE
    /\ recording_start_time = Unset
    /\ total_frames = 0
    /\ detected = FALSE
    /\ detections = <<>>
    /\ rec_time = NotComputed
    /\ csv_file = NoFile
    /\ error = "none"
    /\ now = 0
    /\ pc = "start"
    /\ provenance = <<>>
    /\ episode = 0
    /\ discarded = 0

\* run_live_tracking up to the loop (lines 231-257), the camera opening
StartTracking(d) ==
    /\ pc = "start"
    /\ now + d <= MaxClock
    /\ now' = now + d
    /\ start_time' = now + d
    /\ pc' = "frame"
    /\ UNCHANGED <<trajectory_data, frame_count, recording, recording_start_time,
                   total_frames, detected, detections, rec_time, csv_file,
                   error, provenance, episode, discarded>>
    /\ UNCHANGED <<anVars, offVars>>

\* the camera does not open (lines 233-235): return before the loop
CameraUnavailable ==
    /\ pc = "start"
    /\ pc' = "done"
    /\ UNCHANGED <<trajectory_data, frame_count, start_time, recording,
                   recording_start_time, total_frames, detected, detections,
                   rec_time, csv_file, error, now,
                   provenance, episode, discarded>>
    /\ UNCHANGED <<anVars, offVars>>

\* the loop ends (break at 264 or 318): cleanup, summary and save (lines 333-366)
LeaveLoop ==
    /\ IF total_frames = 0
       THEN \* the detection rate divides by total_frames (line 343)
            /\ error' = "ZeroDivisionError"
            /\ pc' = "crashed"
            /\ csv_file' = csv_file
       ELSE /\ error' = error
            /\ pc' = "done"
            /\ csv_file' = SaveAtExit(trajectory_data, csv_file)
    /\ detections' = <<>>
    /\ UNCHANGED <<trajectory_data, frame_count, start_time, recording,
                   recording_start_time, total_frames, detected, rec_time,
                   now, provenance, episode, discarded>>
    /\ UNCHANGED <<anVars, offVars>>

\* cap.read() fails (lines 260-264)
ReadFails ==
    /\ pc = "frame"
    /\ LeaveLoop

\* one frame is read and processed and the status overlay drawn (lines 260-311);
\* d1, d2 are the advances of the clock up to the reading of line 174 and from
\* there to the readings of the overlay (lines 276 and 299)
ProcessFrame(dets, d1, d2) ==
    /\ pc = "frame"
    /\ total_frames < MaxFrames
    /\ now + d1 + d2 <= MaxClock
    /\ total_frames' = total_frames + 1
    /\ frame_count' = frame_count + 1
    /\ detected' = (Len(dets) > 0)
    /\ detections' = dets
    /\ UNCHANGED <<start_time, recording, recording_start_time, csv_file,
                   episode, discarded>>
    /\ UNCHANGED <<anVars, offVars>>
    /\ IF StoresSamples(recording, dets) /\ recording_start_time = Unset
       THEN \* float - None raises TypeError at line 175
            /\ error' = "TypeError"
            /\ pc' = "crashed"
            /\ now' = now + d1
            /\ UNCHANGED <<trajectory_data, rec_time, provenance>>
       ELSE LET current_time == now + d1
                timestamp == RelativeTimestamp(current_time, start_time,
                                               recording_start_time)
                data == StoredAfterFrame(trajectory_data, recording, dets,
                                         timestamp, frame_count')
                added == Len(data) - Len(trajectory_data)
            IN  /\ trajectory_data' = data
                /\ provenance' = provenance \o
                       [i \in 1..added |-> [wall |-> current_time,
                                            episode |-> episode]]
                /\ now' = now + d1 + d2
                /\ IF OverlayShowsRecTime(recording)
                   THEN LET e == Elapsed(recording_start_time, now')
                        IN  /\ rec_time' = e.value
                            /\ error' = IF e.raised = "none" THEN error ELSE e.raised
                            /\ pc' = IF e.raised = "none" THEN "key" ELSE "crashed"
                   ELSE /\ rec_time' = NotComputed
                        /\ pc' = "key"
                        /\ error' = error

\* waitKey returns 'q' (lines 316-318)
KeyQuit ==
    /\ pc = "key"
    /\ LeaveLoop

\* waitKey returns ' ' (lines 319-331): the recording toggle
KeySpace(d) ==
    /\ pc = "key"
    /\ now + d <= MaxClock
    /\ recording' = ~recording
    /\ trajectory_data' = DataAfterToggle(recording', trajectory_data)
    /\ frame_count' = FrameCountAfterToggle(recording', frame_count)
    /\ recording_start_time' =
           StartAfterToggle(recording', recording_start_time, now + d)
    /\ now' = IF recording' THEN now + d ELSE now
    /\ pc' = "frame"
    /\ provenance' = IF trajectory_data' = <<>> THEN <<>> ELSE provenance
    /\ episode' = IF recording' THEN episode + 1 ELSE episode
    /\ discarded' = IF recording' THEN Len(trajectory_data) - Len(trajectory_data')
                    ELSE discarded
    /\ detections' = <<>>
    /\ UNCHANGED <<start_time, total_frames, detected, rec_time, csv_file, error>>
    /\ UNCHANGED <<anVars, offVars>>

\* waitKey returns no key, or a key the loop ignores
KeyOther ==
    /\ pc = "key"
    /\ pc' = "frame"
    /\ detections' = <<>>
    /\ UNCHANGED <<trajectory_data, frame_count, start_time, recording,
                   recording_start_time, total_frames, detected, rec_time,
                   csv_file, error, now, provenance, episode, discarded>>
    /\ UNCHANGED <<anVars, offVars>>

LiveNext ==
    \/ \E d \in Ticks : StartTracking(d)
    \/ CameraUnavailable
    \/ ReadFails
    \/ \E dets \in FrameInputs, d1, d2 \in Ticks : ProcessFrame(dets, d1, d2)
    \/ KeyQuit
    \/ \E d \in Ticks : KeySpace(d)
    \/ KeyOther

-----------------------------------------------------------------------------
(* Floating-point values of the analyzer *)
(* A value is a pair <<n, d>>: with d > 0 the rational n/d in lowest terms, and   *)
(* with d = 0 one of the IEEE non-finite values.  Signed zeros are not told apart. *)

NaN == <<0, 0>>
PosInf == <<1, 0>>
NegInf == <<-1, 0>>
Q(n) == <<n, 1>>
IsFinite(a) == a[2] /= 0
IsNaN(a) == a = NaN

Sign(n) == IF n > 0 THEN 1 ELSE IF n < 0 THEN -1 ELSE 0
Abs(n) == IF n < 0 THEN -n ELSE n
RECURSIVE Gcd(_, _)
Gcd(a, b) == IF b = 0 THEN a ELSE Gcd(b, a % b)
\* n/d in lowest terms, d > 0
Norm(n, d) == LET g == Gcd(Abs(n), d) IN <<n \div g, d \div g>>

Neg(a) == <<-a[1], a[2]>>
\* sums and products are taken over the least common denominator and after
\* cancelling, which keeps the integers of the model small
Add(a, b) ==
    IF IsFinite(a) /\ IsFinite(b)
    THEN LET g == Gcd(a[2], b[2])
         IN  Norm(a[1] * (b[2] \div g) + b[1] * (a[2] \div g), (a[2] \div g) * b[2])
    ELSE IF IsNaN(a) \/ IsNaN(b) THEN NaN
    ELSE IF ~IsFinite(a) /\ ~IsFinite(b) THEN (IF a = b THEN a ELSE NaN)
    ELSE IF IsFinite(a) THEN b ELSE a
Sub(a, b) == Add(a, Neg(b))
Mul(a, b) ==
    IF IsFinite(a) /\ IsFinite(b)
    THEN LET g == Gcd(Abs(a[1]), b[2])
             h == Gcd(Abs(b[1]), a[2])
         IN  Norm((a[1] \div g) * (b[1] \div h), (a[2] \div h) * (b[2] \div g))
    ELSE IF IsNaN(a) \/ IsNaN(b) THEN NaN
    ELSE IF a[1] = 0 \/ b[1] = 0 THEN NaN
    ELSE <<Sign(a[1]) * Sign(b[1]), 0>>
\* numpy's float division: x/0 is +-inf, 0/0 is NaN, and no error is raised
Div(a, b) ==
    IF IsNaN(a) \/ IsNaN(b) THEN NaN
    ELSE IF IsFinite(a) /\ IsFinite(b)
         THEN IF b[1] = 0 THEN <<Sign(a[1]), 0>>
              ELSE Norm(a[1] * b[2] * Sign(b[1]), a[2] * Abs(b[1]))
    ELSE IF ~IsFinite(a) /\ ~IsFinite(b) THEN NaN
    ELSE IF IsFinite(a) THEN Q(0)
    ELSE IF b[1] < 0 THEN Neg(a) ELSE a
\* the integer square root
ISqrt(n) == CHOOSE r \in 0..n : r * r <= n /\ (r + 1) * (r + 1) > n
\* np.sqrt; exact where numerator and denominator are squares, as they are on
\* the model's inputs
Sqrt(a) ==
    IF IsNaN(a) \/ a = NegInf THEN NaN
    ELSE IF a = PosInf THEN PosInf
    ELSE IF a[1] < 0 THEN NaN
    ELSE <<ISqrt(a[1]), ISqrt(a[2])>>
Square(a) == Mul(a, a)
\* a <= b as floats compare: false when either is NaN
Leq(a, b) ==
    /\ ~IsNaN(a) /\ ~IsNaN(b)
    /\ \/ a = b
       \/ a = NegInf
       \/ b = PosInf
       \/ /\ IsFinite(a) /\ IsFinite(b)
          /\ LET g == Gcd(a[2], b[2])
             IN  a[1] * (b[2] \div g) <= b[1] * (a[2] \div g)

-----------------------------------------------------------------------------
(* Input of the analyzer: the CSV file *)

\* rows of a file of the general family
MaxRows == 3
\* rows of a long recording
LongLen == 6
\* rows of a file that is rewritten
MaxRewrittenRows == 2

Columns == {"timestamp", "frame", "marker_id", "x", "y", "z", "rx", "ry", "rz"}
\* required_cols of load_data (line 36)
RequiredCols == {"timestamp", "marker_id", "x", "y", "z", "rx", "ry", "rz"}

\* Marker 7 moves along the x axis and marker 9 along (1, 2, 2), turning about
\* (2, 1, 2): all poses of one marker are collinear, so that the norms the
\* analyzer takes are rational.  k is the position along the line.
Row(m, t, k) ==
    [timestamp |-> t, frame |-> t + 1, marker_id |-> m,
     x |-> k, y |-> IF m = 7 THEN 0 ELSE 2 * k, z |-> IF m = 7 THEN 0 ELSE 2 * k,
     rx |-> IF m = 7 THEN 0 ELSE 2 * k, ry |-> IF m = 7 THEN 0 ELSE k,
     rz |-> IF m = 7 THEN k ELSE 2 * k]
\* marker 7 twice at 0 s, in two places, then after 1 s and after 2 s; marker 9
\* at 0 s and after 1 s
ShortRows ==
    { Row(7, 0, 0), Row(7, 0, 1), Row(7, 1, 1), Row(7, 2, 0), Row(9, 0, 0), Row(9, 1, 1) }
SeqsUpTo(S, n) == UNION { [1..l -> S] : l \in 0..n }
\* a long recording of marker 9 in time order, from the origin: each row 1 s after
\* the last, but for at most one that has the timestamp of the row before it
RECURSIVE Timed(_, _, _)
Timed(steps, places, t) ==
    IF steps = <<>> THEN <<>>
    ELSE <<Row(9, t + steps[1], places[1])>>
             \o Timed(Tail(steps), Tail(places), t + steps[1])
LongRecordings ==
    { Timed(<<0>> \o steps, places, 0) :
          steps \in { st \in [1..(LongLen - 1) -> 0..1] :
                         Cardinality({ i \in DOMAIN st : st[i] = 0 }) <= 1 },
          places \in { pl \in [1..LongLen -> 0..1] : pl[1] = 0 } }
\* a long recording of marker 9 whose samples all carry the timestamp 0, as the
\* offline tracker writes them for a video that tells no frame rate: the marker
\* stands still, or is seen in a second place in the last sample, or in the
\* first sample alone in the first place
NoSpanRecordings ==
    { Timed([i \in 1..LongLen |-> 0], places, 0) :
          places \in { [i \in 1..LongLen |-> 0],
                       [i \in 1..LongLen |-> IF i = LongLen THEN 1 ELSE 0],
                       [i \in 1..LongLen |-> IF i = 1 THEN 0 ELSE 1] } }
\* a long recording of marker 7 sampled once a second, back and forth between
\* two places, after the rows of rec
WithMarker7(rec) == rec \o [i \in 1..LongLen |-> Row(7, i - 1, i % 2)]
\* two markers recorded at length in one file: marker 9 once a second, or with
\* the second sample at the time of the first, and in a second place in every
\* sample but the first
TwoLongRecordings ==
    { WithMarker7(rec) :
          rec \in { r \in LongRecordings :
                       /\ \A i \in 2..Len(r) : r[i].x = 1
                       /\ \A i \in 3..Len(r) :
                              r[i].timestamp = r[i - 1].timestamp + 1 } }
Table(cols, rows) ==
    [columns |-> cols, rows |-> [i \in 1..Len(rows) |-> [c \in cols |-> rows[i][c]]]]
\* files with every column, every cell a number
FullFiles == { Table(Columns, rows) : rows \in SeqsUpTo(ShortRows, MaxRows) }
                 \cup { Table(Columns, rows) :
                            rows \in LongRecordings \cup NoSpanRecordings
                                       \cup TwoLongRecordings }
\* files that replace the first one: without rz, without the optional frame
\* column, of another marker, of the same marker at other times, and empty
LaterFiles ==
    { Table(Columns \ {"rz"}, <<Row(7, 1, 1), Row(9, 0, 0)>>),
      Table(Columns \ {"frame"}, <<Row(9, 1, 1)>>),
      Table(Columns, <<Row(7, 2, 0), Row(7, 0, 1)>>),
      Table(Columns, <<>>) }
CsvFiles == FullFiles \cup LaterFiles

(* Cells that are not numbers *)
(* pd.read_csv gives a column in which some cell is not a number the dtype     *)
(* object and holds every cell of it as a str.  The str of the number k is      *)
(* written TextBase + k and the cell that is not a number 2 * TextBase, so that *)
(* a str never equals a number, the strs of one-digit numbers compare as their  *)
(* numbers do and the cell that is not a number comes after them, as 'abc'      *)
(* comes after '0'..'9'.                                                        *)
TextBase == 1000
Str(k) == TextBase + k
NonNumeric == 2 * TextBase
IsStr(v) == v >= TextBase

\* the rows with the cell of column c in row i replaced by text
WithText(rows, i, c) == [rows EXCEPT ![i][c] = NonNumeric]
\* rows of two markers, out of time order
MixedRows ==
    { <<Row(7, 1, 1), Row(9, 0, 0), Row(7, 0, 0)>>,
      <<Row(9, 0, 0), Row(9, 1, 1), Row(7, 0, 1)>> }
\* columns in which the files of the model have a cell that is not a number
TextCols == {"x", "timestamp", "marker_id", "frame"}
\* files of two markers, whole or with one cell that is not a number
TextFiles ==
    { Table(Columns, rows) : rows \in MixedRows }
        \cup { Table(Columns, WithText(rows, i, c)) :
                   rows \in MixedRows, i \in 1..3, c \in TextCols }

-----------------------------------------------------------------------------
(* TrajectoryAnalyzer.load_data *)

NoTable == [columns |-> {}, rows |-> <<"None">>]
NoMarkers == <<>>

\* the columns pd.read_csv reads as text (line 33): those with a cell that is not
\* a number
ObjectColumns(table) ==
    { c \in table.columns :
        \E i \in 1..Len(table.rows) : table.rows[i][c] = NonNumeric }
\* the str read for a cell of a text column
StrCell(v) == IF v = NonNumeric THEN NonNumeric ELSE Str(v)
\* pd.read_csv(self.csv_path) (line 33): the table with the dtype of each column
\* inferred from all its cells
ReadTable(table) ==
    LET text == ObjectColumns(table)
    IN  [columns |-> table.columns,
         rows |-> [i \in 1..Len(table.rows) |->
                      [c \in table.columns |->
                          IF c \in text THEN StrCell(table.rows[i][c])
                          ELSE table.rows[i][c]]]]

\* self.df['marker_id'].unique() (line 44)
UniqueMarkerIds(table) == { table.rows[i].marker_id : i \in 1..Len(table.rows) }

\* a selection that gives every marker all the rows of the file
RowsOf_AnyMarker(rows, mid) == rows

\* self.df[self.df['marker_id'] == marker_id] (line 45): the rows of one marker
\* in file order
RECURSIVE RowsOf(_, _)
RowsOf(rows, mid) ==
    IF rows = <<>> THEN <<>>
    ELSE (IF rows[1].marker_id = mid THEN <<rows[1]>> ELSE <<>>)
             \o RowsOf(Tail(rows), mid)

Remove(seq, i) == SubSeq(seq, 1, i - 1) \o SubSeq(seq, i + 1, Len(seq))
\* a load that keeps each marker's rows in file order
SortValues_Unsorted(rows) == {rows}

\* sort_values('timestamp') (line 46).  The default sort is not stable: rows with
\* equal timestamps may come out in any order, so the result is any ordering of
\* the rows by non-decreasing timestamp.
RECURSIVE SortValues(_)
SortValues(rows) ==
    IF rows = <<>> THEN {<<>>}
    ELSE LET least == { i \in 1..Len(rows) :
                          \A j \in 1..Len(rows) :
                              rows[i].timestamp <= rows[j].timestamp }
         IN  UNION { { <<rows[i]>> \o rest : rest \in SortValues(Remove(rows, i)) }
                     : i \in least }

\* a load that stores the markers of a file although a required column is missing
MissingCols_Unchecked(table) == {}

\* missing_cols (line 37)
MissingCols(table) == RequiredCols \ table.columns

\* load_data after the file is read (lines 33-47): self.df is replaced first;
\* with a required column missing the method returns there, otherwise every
\* marker id of the table gets its sorted rows and the other entries of
\* self.markers stay
StoreMarkers(read, old_markers) ==
    IF MissingCols(read) /= {}
    THEN { [df |-> read, markers |-> old_markers] }
    ELSE LET ids == UniqueMarkerIds(read)
             sorted == [mid \in ids |-> SortValues(RowsOf(read.rows, mid))]
             choices == { f \in [ids -> UNION { sorted[mid] : mid \in ids }] :
                            \A mid \in ids : f[mid] \in sorted[mid] }
         IN  { [df |-> read,
                markers |-> [mid \in (DOMAIN old_markers) \cup ids |->
                                IF mid \in ids THEN f[mid] ELSE old_markers[mid]]]
               : f \in choices }

\* the analyzer states load_data can leave (lines 29-51) on a file whose cells
\* are numbers or text that is not a number
LoadData(table, old_markers) == StoreMarkers(ReadTable(table), old_markers)

\* what the last call printed, raised and returned
Ret(op, marker_id, smooth, window, warned, raised, value) ==
    [op |-> op, marker_id |-> marker_id, smooth |-> smooth, window |-> window,
     warned |-> warned, raised |-> raised, value |-> value]

-----------------------------------------------------------------------------
(* TrajectoryAnalyzer.calculate_metrics *)

\* a Series, held as a sequence of its values
Series(f) == f \o <<>>
\* a column of the marker's table as a float Series
Col(rows, c) == Series([i \in 1..Len(rows) |-> Q(rows[i][c])])
\* a difference that is 0 where there is no element before
Diff_ZeroFirst(s) ==
    Series([i \in 1..Len(s) |-> IF i = 1 THEN Q(0) ELSE Sub(s[i], s[i - 1])])

\* Series.diff(): NaN first, then the difference to the element before
Diff(s) == Series([i \in 1..Len(s) |-> IF i = 1 THEN NaN ELSE Sub(s[i], s[i - 1])])
\* elementwise a / b
DivSeries(a, b) == Series([i \in 1..Len(a) |-> Div(a[i], b[i])])
\* np.sqrt(a**2 + b**2 + c**2)
Magnitude(a, b, c) ==
    Series([i \in 1..Len(a) |->
               Sqrt(Add(Add(Square(a[i]), Square(b[i])), Square(c[i])))])
\* the sum of the elements of s[1..i] that are not NaN
RECURSIVE SumSkipNa(_, _)
SumSkipNa(s, i) ==
    IF i = 0 THEN Q(0)
    ELSE IF IsNaN(s[i]) THEN SumSkipNa(s, i - 1)
    ELSE Add(SumSkipNa(s, i - 1), s[i])
\* Series.cumsum(): NaN elements are skipped by the running sum and stay NaN
CumSum(s) ==
    Series([i \in 1..Len(s) |-> IF IsNaN(s[i]) THEN NaN ELSE SumSkipNa(s, i)])
\* np.degrees, in units of 1/pi degree (x rad = 180 x / pi degrees)
Degrees(s) == Series([i \in 1..Len(s) |-> Mul(s[i], Q(180))])
\* Series.fillna(0)
FillNa(s) == Series([i \in 1..Len(s) |-> IF IsNaN(s[i]) THEN Q(0) ELSE s[i]])

\* The least-squares weights of savgol_filter for polyorder 2: row p gives the
\* value of the parabola fitted to a window at its p-th point, over SavgolDen.
\* The weights are the exact ones.  With a window of 3 the parabola goes through
\* the three points and the weight of a neighbour is 0, so that a neighbour that
\* is not finite gives NaN (0 * inf); scipy computes the weights in floating
\* point, and where it gets a last-bit residue instead of 0 the value is +inf or
\* -inf instead: not finite in either case.
SavgolWeights(window) ==
    IF window = 3 THEN << <<1, 0, 0>>, <<0, 1, 0>>, <<0, 0, 1>> >>
    ELSE << <<31, 9, -3, -5, 3>>, <<9, 13, 12, 6, -5>>, <<-3, 12, 17, 12, -3>>,
            <<-5, 6, 12, 13, 9>>, <<3, -5, -3, 9, 31>> >>
SavgolDen(window) == IF window = 3 THEN 1 ELSE 35
RECURSIVE Weighted(_, _, _, _)
\* sum of w[j] * x[first + j - 1] for j = 1..k
Weighted(w, x, first, k) ==
    IF k = 0 THEN Q(0)
    ELSE Add(Weighted(w, x, first, k - 1), Mul(Q(w[k]), x[first + k - 1]))
\* savgol_filter(x, window, 2) with the default mode 'interp': in the middle the
\* weighted sum over the window centred on i, and within window // 2 of an end
\* the value of the parabola np.polyfit fits to the first or last window.  The
\* least-squares solver of np.polyfit does not fit data that are not finite: where
\* it does not raise (PolyfitMayRaise) its coefficients are all NaN, and so is
\* every value taken from that fit.
SavgolFilter(x, window) ==
    LET n == Len(x)
        half == window \div 2
        edge(i) == i <= half \/ i > n - half
        first(i) == IF i <= half THEN 1
                    ELSE IF i > n - half THEN n - window + 1
                    ELSE i - half
        finite(i) == \A j \in first(i)..(first(i) + window - 1) : IsFinite(x[j])
    IN  Series([i \in 1..n |->
            IF edge(i) /\ ~finite(i) THEN NaN
            ELSE Div(Weighted(SavgolWeights(window)[i - first(i) + 1], x, first(i),
                              window),
                     Q(SavgolDen(window)))])
\* the edge fits go through np.polyfit, whose least-squares solver can raise
\* LinAlgError instead of returning non-finite values when the data it is given
\* are not finite
PolyfitMayRaise(x, window) ==
    \E i \in (1..window) \cup ((Len(x) - window + 1)..Len(x)) : ~IsFinite(x[i])

\* a smoothing applied to every series, however short
SmoothingApplies_Always(n, smooth, window) == smooth

\* a smoothing applied from `window` rows on
SmoothingApplies_AtWindow(n, smooth, window) == smooth /\ n >= window

\* is the smoothing applied (line 121)?
SmoothingApplies(n, smooth, window) == smooth /\ n > window

\* a speed taken over the x component alone
SpeedOf_XOnly(vx, vy, vz) == Series([i \in 1..Len(vx) |-> Sqrt(Square(vx[i]))])

\* speed (line 93)
SpeedOf(vx, vy, vz) == Magnitude(vx, vy, vz)

\* a cumulative distance that restarts at every step
CumulativeDistance_NoSum(distance) == distance

\* cumulative_distance (line 85)
CumulativeDistance(distance) == CumSum(distance)

\* the table computed for one marker (lines 73-129)
Derive(rows, smooth, window) ==
    LET n == Len(rows)
        dt == Diff(Col(rows, "timestamp"))
        dx == Diff(Col(rows, "x"))
        dy == Diff(Col(rows, "y"))
        dz == Diff(Col(rows, "z"))
        distance == Magnitude(dx, dy, dz)
        cumulative == CumulativeDistance(distance)
        vx == DivSeries(dx, dt)
        vy == DivSeries(dy, dt)
        vz == DivSeries(dz, dt)
        speed == SpeedOf(vx, vy, vz)
        ax == DivSeries(Diff(vx), dt)
        ay == DivSeries(Diff(vy), dt)
        az == DivSeries(Diff(vz), dt)
        acceleration == Magnitude(ax, ay, az)
        drx == Diff(Col(rows, "rx"))
        dry == Diff(Col(rows, "ry"))
        drz == Diff(Col(rows, "rz"))
        omega_x == DivSeries(drx, dt)
        omega_y == DivSeries(dry, dt)
        omega_z == DivSeries(drz, dt)
        angular_speed == Magnitude(omega_x, omega_y, omega_z)
        rx_deg == Degrees(Col(rows, "rx"))
        ry_deg == Degrees(Col(rows, "ry"))
        rz_deg == Degrees(Col(rows, "rz"))
        smoothed == SmoothingApplies(n, smooth, window)
        Smooth(col) == IF smoothed THEN SavgolFilter(FillNa(col), window) ELSE col
        speed_out == Smooth(speed)
        acceleration_out == Smooth(acceleration)
        angular_speed_out == Smooth(angular_speed)
        rx_deg_out == Smooth(rx_deg)
        ry_deg_out == Smooth(ry_deg)
        rz_deg_out == Smooth(rz_deg)
        raw == [i \in 1..n |->
                   [speed_raw |-> speed[i], acceleration_raw |-> acceleration[i],
                    angular_speed_raw |-> angular_speed[i], rx_deg_raw |-> rx_deg[i],
                    ry_deg_raw |-> ry_deg[i], rz_deg_raw |-> rz_deg[i]]]
        table == [i \in 1..n |->
                   rows[i] @@
                   [dt |-> dt[i], dx |-> dx[i], dy |-> dy[i], dz |-> dz[i],
                    distance |-> distance[i], cumulative_distance |-> cumulative[i],
                    vx |-> vx[i], vy |-> vy[i], vz |-> vz[i],
                    speed |-> speed_out[i],
                    ax |-> ax[i], ay |-> ay[i], az |-> az[i],
                    acceleration |-> acceleration_out[i],
                    drx |-> drx[i], dry |-> dry[i], drz |-> drz[i],
                    omega_x |-> omega_x[i], omega_y |-> omega_y[i],
                    omega_z |-> omega_z[i],
                    angular_speed |-> angular_speed_out[i],
                    rx_deg |-> rx_deg_out[i], ry_deg |-> ry_deg_out[i],
                    rz_deg |-> rz_deg_out[i]]]
    IN  [smoothed |-> smoothed,
         may_raise |-> smoothed /\ \E col \in {speed, acceleration, angular_speed} :
                                       PolyfitMayRaise(FillNa(col), window),
         table |-> IF smoothed THEN [i \in 1..n |-> table[i] @@ raw[i]] ELSE table]

\* the marker ids calculate_metrics goes through (line 65)
RequestedIds(marker_id, held) == IF marker_id /= Unset THEN {marker_id} ELSE DOMAIN held

\* a lookup that gives an absent marker an empty table
FoundIds_EmptyForAbsent(ids, held) == ids

\* the ids that pass the membership test of line 69
FoundIds(ids, held) == ids \cap DOMAIN held

\* a copy of the marker's table that lacks its first row
RowsHeld_DropFirst(held, mid) == IF mid \in DOMAIN held THEN Tail(held[mid]) ELSE <<>>

\* self.markers[mid].copy() (line 73); an absent marker has no rows
RowsHeld(held, mid) == IF mid \in DOMAIN held THEN held[mid] ELSE <<>>

-----------------------------------------------------------------------------
(* TrajectoryAnalyzer.print_summary *)

\* Series.dropna()
DropNa(s) == SelectSeq(s, LAMBDA v : ~IsNaN(v))
\* Series.replace([np.inf, -np.inf], np.nan).dropna() (lines 170, 179, 192)
Valid(s) == SelectSeq(s, IsFinite)
RECURSIVE SumSeq(_)
SumSeq(s) == IF s = <<>> THEN Q(0) ELSE Add(s[1], SumSeq(Tail(s)))
\* Series.max() and Series.min(): NaN is skipped, and the result is NaN when
\* nothing is left
MaxOf(s) ==
    LET v == DropNa(s) IN
    IF v = <<>> THEN NaN
    ELSE v[CHOOSE i \in 1..Len(v) : \A j \in 1..Len(v) : Leq(v[j], v[i])]
MinOf(s) ==
    LET v == DropNa(s) IN
    IF v = <<>> THEN NaN
    ELSE v[CHOOSE i \in 1..Len(v) : \A j \in 1..Len(v) : Leq(v[i], v[j])]
\* Series.mean(): NaN is skipped; 0/0 = NaN when nothing is left
MeanOf(s) == LET v == DropNa(s) IN Div(SumSeq(v), Q(Len(v)))
\* the square of Series.std(): the sample variance (ddof = 1), NaN for fewer
\* than two values.  The summary prints its square root.
VarOf(s) ==
    LET v == DropNa(s)
        m == MeanOf(v)
    IN  IF Len(v) < 2 THEN NaN
        ELSE Div(SumSeq([i \in 1..Len(v) |-> Square(Sub(v[i], m))]), Q(Len(v) - 1))

\* a sample rate that is 0 over an empty time span
SampleRate_ZeroAtNoSpan(n, duration) ==
    IF duration = Q(0) THEN Q(0) ELSE Div(Q(n), duration)

\* len(df)/duration (line 155): a division of numpy floats, inf over a span of 0
SampleRate(n, duration) == Div(Q(n), duration)

\* a total distance that is the largest single step
TotalDistance_LargestStep(T) == MaxOf([i \in 1..Len(T) |-> T[i].distance])

\* total_dist (line 164)
TotalDistance(T) == MaxOf([i \in 1..Len(T) |-> T[i].cumulative_distance])

\* speed statistics over every entry, the non-finite ones counted as 0
SpeedValid_ZeroForNonFinite(T) ==
    Series([i \in 1..Len(T) |-> IF IsFinite(T[i].speed) THEN T[i].speed ELSE Q(0)])

\* speed_valid (line 170)
SpeedValid(T) == Valid([i \in 1..Len(T) |-> T[i].speed])

\* the statistics of a filtered channel; they are printed when count > 0
\* (lines 171, 180, 193)
Stats(v) ==
    [count |-> Len(v), mean |-> MeanOf(v), max |-> MaxOf(v), min |-> MinOf(v),
     var |-> VarOf(v)]

\* [min, max] and the range of a column (lines 159-161, 187-189)
RangeOf(s) == [min |-> MinOf(s), max |-> MaxOf(s), range |-> Sub(MaxOf(s), MinOf(s))]

\* what print_summary reports of one marker's table (lines 146-196), before the
\* values are formatted
Summarize(T) ==
    LET ColOf(c) == Series([i \in 1..Len(T) |-> T[i][c]])
        timestamp == Series([i \in 1..Len(T) |-> Q(T[i].timestamp)])
        duration == Sub(MaxOf(timestamp), MinOf(timestamp))
    IN  [duration |-> duration,
         data_points |-> Len(T),
         sample_rate |-> SampleRate(Len(T), duration),
         x |-> RangeOf(Series([i \in 1..Len(T) |-> Q(T[i].x)])),
         y |-> RangeOf(Series([i \in 1..Len(T) |-> Q(T[i].y)])),
         z |-> RangeOf(Series([i \in 1..Len(T) |-> Q(T[i].z)])),
         total_dist |-> TotalDistance(T),
         mean_distance |-> MeanOf(ColOf("distance")),
         speed |-> Stats(SpeedValid(T)),
         acceleration |-> Stats(Valid(ColOf("acceleration"))),
         rx_deg |-> RangeOf(ColOf("rx_deg")),
         ry_deg |-> RangeOf(ColOf("ry_deg")),
         rz_deg |-> RangeOf(ColOf("rz_deg")),
         angular_speed |-> Stats(Valid(ColOf("angular_speed")))]

-----------------------------------------------------------------------------
(* The analyzer as a state machine *)

\* the analyzer of a specification that does not run it
AnalyzerIdle ==
    /\ csv_input = NoTable
    /\ df = NoTable
    /\ markers = NoMarkers
    /\ ret = Ret("none", Unset, FALSE, 0, {}, "none", <<>>)

\* TrajectoryAnalyzer(csv_path) (lines 17-27): the constructor loads the file
AnalyzerInit ==
    /\ csv_input \in CsvFiles
    /\ \E loaded \in LoadData(csv_input, NoMarkers) :
           /\ df = loaded.df
           /\ markers = loaded.markers
    /\ ret = Ret("load_data", Unset, FALSE, 0, MissingCols(csv_input), "none", <<>>)

\* the file at csv_path is rewritten and load_data() called again.  The calls
\* that come between two loads change nothing of the analyzer, so a load that
\* follows them leaves what it leaves right after the load before: only those
\* loads are generated.
Reload(file) ==
    /\ ret.op = "load_data"
    /\ Len(csv_input.rows) <= MaxRewrittenRows
    /\ csv_input' = file
    /\ \E loaded \in LoadData(file, markers) :
           /\ df' = loaded.df
           /\ markers' = loaded.markers
    /\ ret' = Ret("load_data", Unset, FALSE, 0, MissingCols(file), "none", <<>>)
    /\ UNCHANGED <<liveVars, offVars>>

\* marker ids asked for: the two of the files, one no file holds, and None
QueryIds == {7, 9, 5, Unset}
\* smoothing asked for: none, and a window of 3 or of 5 (the default)
Smoothings == { <<FALSE, 5>>, <<TRUE, 3>>, <<TRUE, 5>> }

\* polyorder of the savgol_filter call (line 127)
PolyOrder == 2
\* savgol_filter checks its parameters before it filters and raises ValueError
\* ("polyorder must be less than window_length") for such a window
SavgolRejects(window) == PolyOrder >= window
\* does the call reach savgol_filter with a window it rejects (lines 121-127)?
WindowRejected(n, smooth, window) ==
    SmoothingApplies(n, smooth, window) /\ SavgolRejects(window)

\* a calculate_metrics that stores each table it computes in self.markers
MarkersAfterCall_InPlace(held, tables) ==
    [mid \in DOMAIN held |-> IF mid \in DOMAIN tables THEN tables[mid] ELSE held[mid]]
\* self.markers after a call: the metrics are computed on a copy (line 73)
MarkersAfterCall(held, tables) == held

\* the columns calculate_metrics computes with (lines 76-118)
ArithmeticCols == RequiredCols \ {"marker_id"}
\* do the rows hold text where calculate_metrics computes?  Then diff() subtracts
\* str from str, or np.sqrt and np.degrees meet a column of objects: TypeError
HoldsText(rows) ==
    \E i \in 1..Len(rows) : \E c \in ArithmeticCols : IsStr(rows[i][c])

\* calculate_metrics(marker_id, smooth, window) (lines 53-131): what a call does,
\* whatever was called before it
MetricsCall(marker_id, smooth, window) ==
    LET ids == RequestedIds(marker_id, markers)
        found == FoundIds(ids, markers)
    IN  /\ IF \E mid \in found : HoldsText(RowsHeld(markers, mid))
           THEN /\ ret' = Ret("calculate_metrics", marker_id, smooth, window,
                              ids \ found, "TypeError", <<>>)
                /\ markers' = markers
           ELSE IF \E mid \in found :
                 WindowRejected(Len(RowsHeld(markers, mid)), smooth, window)
           THEN /\ ret' = Ret("calculate_metrics", marker_id, smooth, window,
                              ids \ found, "ValueError", <<>>)
                /\ markers' = markers
           ELSE LET derived == [mid \in found |->
                                   Derive(RowsHeld(markers, mid), smooth, window)]
                    tables == [mid \in found |-> derived[mid].table]
                IN  /\ markers' = MarkersAfterCall(markers, tables)
                    /\ \/ ret' = Ret("calculate_metrics", marker_id, smooth, window,
                                     ids \ found, "none", tables)
                       \/ /\ \E mid \in found : derived[mid].may_raise
                          /\ ret' = Ret("calculate_metrics", marker_id, smooth,
                                        window, ids \ found, "LinAlgError", <<>>)
        /\ UNCHANGED <<csv_input, df>>
        /\ UNCHANGED <<liveVars, offVars>>

\* a call that follows a load.  The call reads self.markers alone and changes
\* nothing of the analyzer, so a call that follows another call returns what it
\* returns right after the load: SpecAnalyzer generates only the calls after a
\* load, and SpecCalls the calls after a call as well.
CalculateMetrics(marker_id, smooth, window) ==
    /\ ret.op = "load_data"
    /\ MetricsCall(marker_id, smooth, window)

\* a call that follows a call
CalculateMetricsAgain(marker_id, smooth, window) ==
    /\ ret.op = "calculate_metrics"
    /\ MetricsCall(marker_id, smooth, window)

\* the defaults of calculate_metrics (line 53), with which print_summary calls it
DefaultSmooth == TRUE
DefaultWindow == 5

\* print_summary(marker_id) (lines 133-198): the metrics are computed with the
\* default smoothing (line 140), and an error raised there ends the summary
PrintSummary(marker_id) ==
    LET ids == RequestedIds(marker_id, markers)
        found == FoundIds(ids, markers)
        derived == [mid \in found |->
                       Derive(RowsHeld(markers, mid), DefaultSmooth, DefaultWindow)]
    IN  /\ ret.op = "load_data"
        /\ IF \E mid \in found : HoldsText(RowsHeld(markers, mid))
           THEN ret' = Ret("print_summary", marker_id, DefaultSmooth, DefaultWindow,
                           ids \ found, "TypeError", <<>>)
           ELSE \/ ret' = Ret("print_summary", marker_id, DefaultSmooth,
                              DefaultWindow, ids \ found, "none",
                              [mid \in found |-> Summarize(derived[mid].table)])
                \/ /\ \E mid \in found : derived[mid].may_raise
                   /\ ret' = Ret("print_summary", marker_id, DefaultSmooth,
                                 DefaultWindow, ids \ found, "LinAlgError", <<>>)
        /\ UNCHANGED <<csv_input, df, markers>>
        /\ UNCHANGED <<liveVars, offVars>>

AnalyzerNext ==
    \/ \E file \in LaterFiles : Reload(file)
    \/ \E marker_id \in QueryIds, sm \in Smoothings :
           CalculateMetrics(marker_id, sm[1], sm[2])
    \/ \E marker_id \in QueryIds : PrintSummary(marker_id)

-----------------------------------------------------------------------------
(* The offline tracker: ArucoTracker.process_video, one video after another *)

\* process_video calls made on one tracker
MaxVideos == 2
\* frames of a video
MaxVideoFrames == 2
\* config.FRAME_SKIP
FRAME_SKIP == 1
\* cap.get(CAP_PROP_FPS): 0 when the container does not tell, else frames per
\* second
FpsValues == {0, 1, 2}
\* the detections of one frame of a video: none, marker 7 or 9, or both in
\* either order
VideoInputs ==
    { dets \in FrameInputs :
        \A i \in 1..Len(dets) : dets[i].tvec[1] \in {Half, ThreeTenthsAndAnUlp} }

\* the timestamp of frame n (line 81): frame_number / self.fps, or 0.0
FrameTimestamp(f, n) ==
    IF f /= Unset /\ f > 0 THEN Div(Q(n), Q(f)) ELSE Q(0)
\* detect_and_estimate_pose (lines 47-96): one sample per detection
DetectAndEstimatePose(data, dets, f, n) ==
    data \o [i \in 1..Len(dets) |-> Sample(FrameTimestamp(f, n), n, dets[i])]

\* str() of a float timestamp k or k + 1/2, the timestamps of the model
ReprRatio(q) ==
    IF q[2] = 1 THEN ReprWhole(q[1])
    ELSE [int |-> q[1] \div q[2], frac |-> <<(10 * (q[1] % q[2])) \div q[2]>>]
\* writer.writerow(data_point) (line 167)
WriteVideoRow(sample) ==
    [c \in Fieldnames |-> IF c = "timestamp" THEN ReprRatio(sample[c])
                          ELSE StrOf(c, sample[c])]
\* ArucoTracker.save_trajectory (lines 150-167): the file after the call
SaveVideoTrajectory(data, file) ==
    IF data = <<>> THEN file
    ELSE [columns |-> Fieldnames,
          rows |-> [i \in 1..Len(data) |-> WriteVideoRow(data[i])]]

\* ArucoTracker(...) (lines 25-45)
OfflineIdle ==
    /\ off_data = <<>>
    /\ fps = Unset
    /\ frame_number = 0
    /\ off_csv = NoFile
    /\ off_pc = "idle"
    /\ videos = 0

\* process_video up to its loop (lines 106-123): the video opens
OpenVideo(f) ==
    /\ off_pc \in {"idle", "returned", "raised"}
    /\ videos < MaxVideos
    /\ fps' = f
    /\ frame_number' = 0
    /\ off_pc' = "reading"
    /\ videos' = videos + 1
    /\ UNCHANGED <<off_data, off_csv>>
    /\ UNCHANGED <<liveVars, anVars>>

\* the video does not open (lines 111-112): ValueError
VideoUnavailable ==
    /\ off_pc \in {"idle", "returned", "raised"}
    /\ videos < MaxVideos
    /\ off_pc' = "raised"
    /\ videos' = videos + 1
    /\ UNCHANGED <<off_data, fps, frame_number, off_csv>>
    /\ UNCHANGED <<liveVars, anVars>>

\* one frame is read and processed (lines 125-138)
ReadVideoFrame(dets) ==
    /\ off_pc = "reading"
    /\ frame_number < MaxVideoFrames
    /\ off_data' = IF frame_number % FRAME_SKIP = 0
                   THEN DetectAndEstimatePose(off_data, dets, fps, frame_number)
                   ELSE off_data
    /\ frame_number' = frame_number + 1
    /\ UNCHANGED <<fps, off_csv, off_pc, videos>>
    /\ UNCHANGED <<liveVars, anVars>>

\* the video ends (lines 128-129): release, save and return (lines 140-148)
EndOfVideo ==
    /\ off_pc = "reading"
    /\ off_csv' = SaveVideoTrajectory(off_data, off_csv)
    /\ off_pc' = "returned"
    /\ UNCHANGED <<off_data, fps, frame_number, videos>>
    /\ UNCHANGED <<liveVars, anVars>>

OfflineNext ==
    \/ \E f \in FpsValues : OpenVideo(f)
    \/ VideoUnavailable
    \/ \E dets \in VideoInputs : ReadVideoFrame(dets)
    \/ EndOfVideo

-----------------------------------------------------------------------------
(* A saved store read back: save_trajectory, then TrajectoryAnalyzer(csv_path) *)

\* samples held by a store that is saved
MaxSaved == 2
\* max_digits of the float parser behind pd.read_csv (line 33): the digits of a
\* number it reads, counted from the first digit of the text, zeros included
MaxDigits == 17

\* the x coordinates of the saved samples
SavedX == {Half, Quarter, ThreeTenthsAndAnUlp}
\* a sample as process_frame or create_trajectory_point builds it
SavedSample(t, m, x) ==
    [timestamp |-> t, frame |-> t + 1, marker_id |-> m,
     x |-> x, y |-> 0, z |-> 0, rx |-> 0, ry |-> 0, rz |-> 0]
SavedSamples == { SavedSample(t, m, x) : t \in 0..1, m \in {7, 9}, x \in SavedX }
SavedStores == UNION { [1..l -> SavedSamples] : l \in 0..MaxSaved }

RECURSIVE NumDigits(_)
\* the decimal digits of a natural number
NumDigits(n) == IF n < 10 THEN 1 ELSE 1 + NumDigits(n \div 10)
RECURSIVE StripZeros(_)
\* a digit string without its trailing zeros
StripZeros(ds) ==
    IF ds /= <<>> /\ ds[Len(ds)] = 0 THEN StripZeros(SubSeq(ds, 1, Len(ds) - 1))
    ELSE ds

\* a parser that reads every digit of the text
ReadFloat_AllDigits(t) ==
    IF StripZeros(t.frac) = <<>> THEN t.int ELSE [int |-> t.int, frac |-> t.frac]

\* The float read from a cell by pd.read_csv (line 33).  Its parser takes the
\* first MaxDigits digits of the text into the number and skips the digits after
\* them; the float it returns is the one nearest to the number taken, which is
\* the float that repr() prints with these digits when they are 15 or fewer.
ReadFloat(t) ==
    LET kept == MaxDigits - NumDigits(t.int)
        taken == IF kept <= 0 THEN <<>>
                 ELSE IF kept < Len(t.frac) THEN SubSeq(t.frac, 1, kept)
                 ELSE t.frac
        frac == StripZeros(taken)
    IN  IF frac = <<>> THEN t.int ELSE [int |-> t.int, frac |-> frac]
\* the value of a cell: an int when the text has no decimal point
ParseCell(t) == IF t.frac = <<>> THEN t.int ELSE ReadFloat(t)
\* pd.read_csv(self.csv_path) (line 33) on a file whose cells are given by their
\* digits: every cell is a number, and is read as one
ReadCsv(file) ==
    [columns |-> file.columns,
     rows |-> [i \in 1..Len(file.rows) |->
                  [c \in file.columns |-> ParseCell(file.rows[i][c])]]]

\* a store held by a tracker, about to be saved
InitRoundTrip ==
    /\ trajectory_data \in SavedStores
    /\ frame_count = 0
    /\ start_time = Unset
    /\ recording = FALSE
    /\ recording_start_time = Unset
    /\ total_frames = 0
    /\ detected = FALSE
    /\ detections = <<>>
    /\ rec_time = NotComputed
    /\ csv_file = NoFile
    /\ error = "none"
    /\ now = 0
    /\ pc = "stored"
    /\ provenance = <<>>
    /\ episode = 0
    /\ discarded = 0
    /\ AnalyzerIdle
    /\ OfflineIdle

\* save_trajectory(output_path) (live_tracker.py lines 198-218), which is
\* TrajectoryIO.save_trajectory (aruco_utils.py lines 203-228)
SaveStore ==
    /\ pc = "stored"
    /\ csv_file' = SaveTrajectory(trajectory_data, csv_file)
    /\ pc' = IF SaveReturns(trajectory_data) THEN "saved" ELSE "not saved"
    /\ UNCHANGED <<trajectory_data, frame_count, start_time, recording,
                   recording_start_time, total_frames, detected, detections,
                   rec_time, error, now,
                   provenance, episode, discarded>>
    /\ UNCHANGED <<anVars, offVars>>

\* TrajectoryAnalyzer(csv_path) on the file just written (lines 15-51)
LoadSaved ==
    /\ pc = "saved"
    /\ csv_input' = ReadCsv(csv_file)
    /\ \E loaded \in StoreMarkers(csv_input', NoMarkers) :
           /\ df' = loaded.df
           /\ markers' = loaded.markers
    /\ ret' = Ret("load_data", Unset, FALSE, 0, MissingCols(csv_input'), "none", <<>>)
    /\ pc' = "loaded"
    /\ UNCHANGED <<trajectory_data, frame_count, start_time, recording,
                   recording_start_time, total_frames, detected, detections,
                   rec_time, csv_file, error, now,
                   provenance, episode, discarded>>
    /\ UNCHANGED offVars

NextRoundTrip == SaveStore \/ LoadSaved
SpecRoundTrip == InitRoundTrip /\ [][NextRoundTrip]_vars

\* the live tracker
Init == LiveInit /\ AnalyzerIdle /\ OfflineIdle
Next == LiveNext
Spec == Init /\ [][Next]_vars

\* the offline analyzer
InitAnalyzer == LiveInit /\ AnalyzerInit /\ OfflineIdle
SpecAnalyzer == InitAnalyzer /\ [][AnalyzerNext]_vars

\* the offline tracker
InitOffline == LiveInit /\ AnalyzerIdle /\ OfflineIdle
SpecOffline == InitOffline /\ [][OfflineNext]_vars

\* calls of calculate_metrics one after another, with any window
\* rows of the short files the calls are made on
MaxCallRows == 2
\* the short files, and the long recordings sampled once a second that start
\* with a step away from the origin
CallFiles ==
    { Table(Columns, rows) : rows \in SeqsUpTo(ShortRows, MaxCallRows) }
        \cup { Table(Columns, rows) :
                   rows \in { r \in LongRecordings :
                                 /\ \A i \in 1..Len(r) : r[i].timestamp = i - 1
                                 /\ r[2].x = 1 /\ r[3].x = 0 } }
\* the smoothings of SpecAnalyzer, and windows of 1 and 2, which are not odd
\* integers of 3 or more and not above the polynomial order
AnyWindows == Smoothings \cup { <<TRUE, 1>>, <<TRUE, 2>> }
InitCalls ==
    /\ LiveInit
    /\ OfflineIdle
    /\ csv_input \in CallFiles
    /\ \E loaded \in LoadData(csv_input, NoMarkers) :
           /\ df = loaded.df
           /\ markers = loaded.markers
    /\ ret = Ret("load_data", Unset, FALSE, 0, MissingCols(csv_input), "none", <<>>)
CallsNext ==
    \/ \E marker_id \in QueryIds, sm \in AnyWindows :
           CalculateMetrics(marker_id, sm[1], sm[2])
    \/ \E marker_id \in QueryIds, sm \in AnyWindows :
           CalculateMetricsAgain(marker_id, sm[1], sm[2])
SpecCalls == InitCalls /\ [][CallsNext]_vars

\* the analyzer on files of two markers in which a cell may not be a number
InitText ==
    /\ LiveInit
    /\ OfflineIdle
    /\ csv_input \in TextFiles
    /\ \E loaded \in LoadData(csv_input, NoMarkers) :
           /\ df = loaded.df
           /\ markers = loaded.markers
    /\ ret = Ret("load_data", Unset, FALSE, 0, MissingCols(csv_input), "none", <<>>)
TextNext ==
    \/ \E marker_id \in QueryIds, sm \in Smoothings :
           CalculateMetrics(marker_id, sm[1], sm[2])
    \/ \E marker_id \in QueryIds : PrintSummary(marker_id)
SpecText == InitText /\ [][TextNext]_vars

-----------------------------------------------------------------------------
(* Properties of the live tracker *)

\* C1: a frame processed while Idle (recording = FALSE) appends no sample to
\* trajectory_data, whether or not markers are detected in it.
C1_IdleFrameAppendsNothing ==
    [][(pc = "frame" /\ ~recording) =>
           Len(trajectory_data') = Len(trajectory_data)]_vars

\* a frame with a detection has just been processed while Idle, after an episode
\* that stored samples (the store is kept after the Recording->Idle toggle)
C1_Witness ==
    pc = "key" /\ ~recording /\ detected /\ Len(trajectory_data) > 0

\* C2: the Idle->Recording toggle empties trajectory_data before any sample of the
\* new episode is appended: right after the toggle the store is empty, and in every
\* state all stored samples were appended in one and the same (the latest) episode.
C2_OneEpisodeInStore ==
    /\ Len(provenance) = Len(trajectory_data)
    /\ \A i \in 1..Len(provenance) : provenance[i].episode = episode
    /\ (recording /\ frame_count = 0) => trajectory_data = <<>>

\* a second (or later) episode holds samples and its start dropped earlier ones
C2_Witness ==
    episode >= 2 /\ discarded > 0 /\ Len(trajectory_data) > 0

\* C3: every stored sample's timestamp is the wall-clock time at which its frame
\* was processed minus the recording_start_time of the latest Idle->Recording
\* toggle, which is set; no timestamp is computed from an unset origin.
C3_TimestampFromCurrentOrigin ==
    /\ error /= "TypeError"
    /\ Len(provenance) = Len(trajectory_data)
    /\ \A i \in 1..Len(trajectory_data) :
           /\ recording_start_time /= Unset
           /\ trajectory_data[i].timestamp =
                  provenance[i].wall - recording_start_time

\* a sample of a later episode, stored with a positive timestamp, whose episode
\* started later than the tracker and than the samples it dropped
C3_Witness ==
    /\ episode >= 2 /\ discarded > 0
    /\ recording_start_time > start_time
    /\ \E i \in 1..Len(trajectory_data) : trajectory_data[i].timestamp > 0

\* C4: the Recording->Idle toggle and every step taken while Idle leave
\* trajectory_data as it is: any step that ends Idle changes no stored sample.
C4_StoreKeptWhileIdle ==
    [][~recording' => trajectory_data' = trajectory_data]_vars

\* Idle again after an episode, the episode's two or more samples still stored
\* and a further frame processed
C4_Witness ==
    /\ ~recording /\ episode >= 1 /\ Len(trajectory_data) >= 2
    /\ pc = "key" /\ frame_count > trajectory_data[Len(trajectory_data)].frame

\* C5 (as stated): in every Idle state, evaluating the recording-relative elapsed
\* time fails with InvalidStateError.
C5_IdleElapsedFails ==
    ~recording => Elapsed(recording_start_time, now).raised = "InvalidStateError"

\* what the loop does for C5: it computes the recording-relative elapsed time
\* exactly in the iterations run while Recording, from a set origin; while Idle it
\* skips the computation and raises nothing.
C5_ElapsedOnlyWhileRecording ==
    /\ error /= "TypeError"
    /\ pc = "key" =>
          /\ (rec_time /= NotComputed) <=> recording
          /\ recording => rec_time = now - recording_start_time

\* an Idle iteration after a recording: no Rec Time although an origin is set, so
\* that the elapsed-time expression has a value and raises nothing
C5_Witness ==
    /\ pc = "key" /\ ~recording /\ recording_start_time /= Unset
    /\ rec_time = NotComputed /\ error = "none"

-----------------------------------------------------------------------------
(* Properties of the analyzer *)

\* the required columns a file lacks, read off the file itself
Lacking(file) == RequiredCols \ file.columns
\* the tables returned by the last call, if it was a calculate_metrics that returned
Returned ==
    IF ret.op = "calculate_metrics" /\ ret.raised = "none" THEN DOMAIN ret.value ELSE {}
\* the unsmoothed speed of a returned row
RawSpeed(row) == IF "speed_raw" \in DOMAIN row THEN row.speed_raw ELSE row.speed
\* the sum of the step distances of the rows 2..i of a returned table
RECURSIVE StepSum(_, _)
StepSum(T, i) == IF i <= 1 THEN Q(0) ELSE Add(StepSum(T, i - 1), T[i].distance)

\* C6: whatever the order of the rows in the file, each marker's sequence held after
\* the load is sorted by non-decreasing timestamp.
C6_LoadedSequencesSorted ==
    \A mid \in DOMAIN markers :
        \A i, j \in 1..Len(markers[mid]) :
            i < j => markers[mid][i].timestamp <= markers[mid][j].timestamp

\* a loaded file in which the rows of one marker are out of time order and have a
\* row of the other marker between them
C6_Witness ==
    /\ Lacking(csv_input) = {} /\ df = csv_input
    /\ \E i, j, k \in 1..Len(csv_input.rows) :
           /\ i < j /\ j < k
           /\ csv_input.rows[i].marker_id = csv_input.rows[k].marker_id
           /\ csv_input.rows[i].marker_id /= csv_input.rows[j].marker_id
           /\ csv_input.rows[i].timestamp > csv_input.rows[k].timestamp
    /\ DOMAIN markers = {7, 9}

\* C7 (as stated): loading a file that lacks a required column fails with
\* MalformedRecordError and leaves self.df and self.markers as they were.
C7_MalformedLoadFailsAtomically ==
    [][(ret'.op = "load_data" /\ Lacking(csv_input') /= {}) =>
           /\ ret'.raised = "MalformedRecordError"
           /\ df' = df
           /\ markers' = markers]_vars

\* what the code does for C7: loading a file that lacks a required column raises
\* nothing: it warns of the missing columns and returns, leaving the per-marker
\* sequences as they were (empty after the constructor), with self.df replaced by
\* the file read.
C7_MalformedLoadWarnsAndKeepsMarkers ==
    /\ (Lacking(csv_input) /= {} => markers = NoMarkers)
    /\ []((ret.op = "load_data" /\ Lacking(csv_input) /= {}) =>
              /\ ret.raised = "none"
              /\ ret.warned = Lacking(csv_input)
              /\ df = csv_input)
    /\ [][(ret'.op = "load_data" /\ Lacking(csv_input') /= {}) =>
              markers' = markers]_vars

\* a file without rz has been loaded over an analyzer that holds both markers
C7_Witness ==
    /\ ret.op = "load_data" /\ "rz" \in Lacking(csv_input)
    /\ df = csv_input
    /\ DOMAIN markers = {7, 9} /\ Len(markers[7]) >= 2

\* C8 (as stated): asking for the metrics or the summary of a marker id the store
\* does not hold fails with NotFoundError.
C8_AbsentMarkerFails ==
    (ret.op \in {"calculate_metrics", "print_summary"} /\ ret.marker_id /= Unset
        /\ ret.marker_id \notin DOMAIN markers) => ret.raised = "NotFoundError"

\* what the code does for C8: asking for the metrics of a marker id the store does
\* not hold raises nothing: it warns that the marker is not found and returns an
\* empty mapping.
C8_AbsentMarkerWarnsAndReturnsEmpty ==
    (ret.op = "calculate_metrics" /\ ret.marker_id /= Unset
        /\ ret.marker_id \notin DOMAIN markers) =>
            /\ ret.raised = "none"
            /\ ret.warned = {ret.marker_id}
            /\ DOMAIN ret.value = {}

\* marker 9 has been asked for of an analyzer that holds marker 7 alone
C8_Witness ==
    /\ ret.op = "calculate_metrics" /\ ret.marker_id = 9
    /\ DOMAIN markers = {7} /\ Len(markers[7]) >= 2

\* C9: in every returned table, cumulative_distance is non-decreasing along the rows
\* and is at each row the sum of the step distances up to it (0 at the first row).
C9_CumulativeDistanceIsRunningSum ==
    \A mid \in Returned :
        LET T == ret.value[mid] IN
        /\ \A i \in 1..Len(T) : T[i].cumulative_distance = StepSum(T, i)
        /\ \A i \in 1..(Len(T) - 1) :
               Leq(T[i].cumulative_distance, T[i + 1].cumulative_distance)

\* C9, from the second row on: there cumulative_distance is the running sum of the
\* step distances and does not decrease.
C9_HoldsFromSecondRow ==
    \A mid \in Returned :
        LET T == ret.value[mid] IN
        /\ \A i \in 2..Len(T) : T[i].cumulative_distance = StepSum(T, i)
        /\ \A i \in 2..(Len(T) - 1) :
               Leq(T[i].cumulative_distance, T[i + 1].cumulative_distance)

\* the velocity components of row i of T are the position deltas of the stored
\* rows R over their time delta
VelocityIsDeltaOverDt(T, R, i) ==
    LET dt == R[i].timestamp - R[i - 1].timestamp IN
    /\ T[i].vx = Norm(R[i].x - R[i - 1].x, dt)
    /\ T[i].vy = Norm(R[i].y - R[i - 1].y, dt)
    /\ T[i].vz = Norm(R[i].z - R[i - 1].z, dt)
\* the rows and the call of the example: marker 7 at (0,0,0) at 0 s and at
\* (1,0,0) at 1 s
ExampleReturned ==
    /\ 7 \in Returned
    /\ markers[7] = <<Row(7, 0, 0), Row(7, 1, 1)>>

\* C10 (as stated): for consecutive rows with dt > 0 the velocity components are the
\* position deltas over dt and the speed column is the step distance over dt.
C10_SpeedColumnIsDistanceOverDt ==
    \A mid \in Returned :
        LET T == ret.value[mid]
            R == markers[mid]
        IN  \A i \in 2..Len(T) :
                R[i].timestamp > R[i - 1].timestamp =>
                    /\ VelocityIsDeltaOverDt(T, R, i)
                    /\ T[i].speed = Div(T[i].distance, T[i].dt)

\* C10 (amended): for consecutive rows with dt > 0 the velocity components are the
\* position deltas over dt and the unsmoothed speed (the speed column when no
\* smoothing is applied, speed_raw when it is) is the step distance over dt; in the
\* example of marker 7, speed and cumulative_distance at index 1 are both 1.
C10_RawSpeedIsDistanceOverDt ==
    /\ \A mid \in Returned :
           LET T == ret.value[mid]
               R == markers[mid]
           IN  \A i \in 2..Len(T) :
                   R[i].timestamp > R[i - 1].timestamp =>
                       /\ VelocityIsDeltaOverDt(T, R, i)
                       /\ RawSpeed(T[i]) = Div(T[i].distance, T[i].dt)
    /\ ExampleReturned =>
           /\ ret.value[7][2].speed = Q(1)
           /\ ret.value[7][2].cumulative_distance = Q(1)

\* a smoothed table of marker 9 with a row, dt > 0, whose smoothed speed differs
\* from its step distance over dt
C10_Witness ==
    /\ 9 \in Returned
    /\ \E i \in 2..Len(ret.value[9]) :
           /\ "speed_raw" \in DOMAIN ret.value[9][i]
           /\ markers[9][i].timestamp > markers[9][i - 1].timestamp
           /\ IsFinite(ret.value[9][i].speed)
           /\ ret.value[9][i].speed /= ret.value[9][i].speed_raw
           /\ ret.value[9][i].speed_raw = Div(ret.value[9][i].distance, ret.value[9][i].dt)

\* the example of C10 has been computed
C10_ExampleReached == ExampleReturned /\ ret.marker_id = 7

-----------------------------------------------------------------------------
(* Properties of the derived series *)

\* the last call was calculate_metrics or print_summary
Called == ret.op \in {"calculate_metrics", "print_summary"}
\* the held markers the last call was made for
Asked ==
    IF ~Called THEN {}
    ELSE IF ret.marker_id = Unset THEN DOMAIN markers
    ELSE {ret.marker_id} \cap DOMAIN markers
\* the markers whose summary the last call reported
Summarized ==
    IF ret.op = "print_summary" /\ ret.raised = "none" THEN DOMAIN ret.value ELSE {}
\* rows i - 1 and i of R share their timestamp
ZeroDt(R, i) == i >= 2 /\ R[i].timestamp = R[i - 1].timestamp
\* the unsmoothed acceleration magnitude of a returned row
RawAcceleration(row) ==
    IF "acceleration_raw" \in DOMAIN row THEN row.acceleration_raw ELSE row.acceleration

\* C11: at every index whose sample has the timestamp of the sample before it
\* (dt = 0), the velocity components and the speed of the returned series are
\* non-finite, whatever the length of the series and the smoothing.
C11_ZeroDtGivesNonFiniteSpeed ==
    \A mid \in Returned :
        LET T == ret.value[mid]
            R == markers[mid]
        IN  \A i \in 1..Len(T) :
                ZeroDt(R, i) =>
                    /\ ~IsFinite(T[i].vx) /\ ~IsFinite(T[i].vy) /\ ~IsFinite(T[i].vz)
                    /\ ~IsFinite(T[i].speed)

\* C11, for the values before smoothing: at dt = 0 the velocity components and the
\* unsmoothed speed are non-finite.
C11_HoldsBeforeSmoothing ==
    \A mid \in Returned :
        LET T == ret.value[mid]
            R == markers[mid]
        IN  \A i \in 1..Len(T) :
                ZeroDt(R, i) =>
                    /\ ~IsFinite(T[i].vx) /\ ~IsFinite(T[i].vy) /\ ~IsFinite(T[i].vz)
                    /\ ~IsFinite(RawSpeed(T[i]))

\* the fields of a derived row that are differences or quotients of differences
DerivativeFields ==
    {"dt", "dx", "dy", "dz", "distance", "vx", "vy", "vz", "speed",
     "ax", "ay", "az", "acceleration", "drx", "dry", "drz",
     "omega_x", "omega_y", "omega_z", "angular_speed"}
\* the position and rotation fields of a sample
PoseFields == {"x", "y", "z", "rx", "ry", "rz"}

\* C12: calculate_metrics on a marker that holds a single sample raises nothing
\* and returns for it a table of one row, whose position and rotation are the
\* sample's and whose derivative fields (dt, deltas, distance, velocity, speed,
\* acceleration, angular velocity) are all NaN.
C12_SingleSampleDerives ==
    ret.op = "calculate_metrics" =>
        \A mid \in Asked :
            Len(markers[mid]) = 1 =>
                /\ ret.raised = "none"
                /\ mid \in DOMAIN ret.value
                /\ Len(ret.value[mid]) = 1
                /\ \A c \in PoseFields : ret.value[mid][1][c] = markers[mid][1][c]
                /\ \A c \in DerivativeFields : IsNaN(ret.value[mid][1][c])

\* the metrics of all markers have been computed with smoothing asked for, marker 7
\* holding one sample away from the origin and marker 9 another
C12_Witness ==
    /\ ret.op = "calculate_metrics" /\ ret.smooth /\ ret.marker_id = Unset
    /\ DOMAIN markers = {7, 9}
    /\ Len(markers[7]) = 1 /\ markers[7][1].x = 1 /\ markers[7][1].rz = 1
    /\ ret.raised = "none"

\* the unsmoothed speeds of the series derived from rows R
RawSpeeds(R) ==
    LET T == Derive(R, FALSE, DefaultWindow).table
    IN  [i \in 1..Len(T) |-> T[i].speed]

\* C13: the speed mean, max, min and standard deviation of a summary are taken
\* over exactly the entries of the series whose derived speed is finite; an entry
\* whose speed is not finite (index 0, dt = 0) enters them neither as zero nor as
\* any other value.
C13_SpeedStatsOverFiniteEntries ==
    \A mid \in Summarized :
        ret.value[mid].speed = Stats(SelectSeq(RawSpeeds(markers[mid]), IsFinite))

\* C13, for the series that are not smoothed (at most DefaultWindow samples): the
\* speed statistics are those of the finite derived speeds.
C13_HoldsWithoutSmoothing ==
    \A mid \in Summarized :
        Len(markers[mid]) <= DefaultWindow =>
            ret.value[mid].speed = Stats(SelectSeq(RawSpeeds(markers[mid]), IsFinite))

\* the records of marker A in a file, read off the file itself
OnlyMarker(rows, A) == SelectSeq(rows, LAMBDA r : r.marker_id = A)
\* the file that holds the records of marker A and no record of another marker
FileOf(file, A) == Table(file.columns, OnlyMarker(file.rows, A))
\* the sequences a load of the file into an empty analyzer can store for marker A
StoredFor(file, A) == { l.markers[A] : l \in LoadData(file, NoMarkers) }

\* the marker ids written in the rows of a file
WrittenIds(file) ==
    { file.rows[i].marker_id : i \in 1..Len(file.rows) } \ {NonNumeric}
\* the last call is what the same call gives on an analyzer that holds the
\* sequence seq of marker A and nothing else
AloneGives(seq, A) ==
    LET d == Derive(seq, ret.smooth, ret.window) IN
    IF ret.raised = "none"
    THEN /\ ~HoldsText(seq)
         /\ A \in DOMAIN ret.value
         /\ ret.value[A] = IF ret.op = "calculate_metrics" THEN d.table
                           ELSE Summarize(d.table)
    ELSE ret.marker_id = A =>
             \/ ret.raised = "TypeError" /\ HoldsText(seq)
             \/ /\ ~HoldsText(seq)
                /\ \/ /\ ret.raised = "ValueError"
                      /\ WindowRejected(Len(seq), ret.smooth, ret.window)
                   \/ ret.raised = "LinAlgError" /\ d.may_raise

\* C14: for every marker A written in the file the analyzer loaded, what the
\* analyzer holds for A is what it holds after loading the file reduced to the
\* records of A, and a call that asks for A, alone or with all markers, derives
\* and summarizes for A what it does on that reduced file: the records of other
\* markers have no effect.
C14_IndependentOfOtherRecords ==
    Lacking(csv_input) = {} =>
        \A A \in WrittenIds(csv_input) :
            LET alone == StoredFor(FileOf(csv_input, A), A) IN
            /\ ret.op = "load_data" => (A \in DOMAIN markers /\ markers[A] \in alone)
            /\ (Called /\ ret.marker_id \in {A, Unset}) =>
                   \E seq \in alone : AloneGives(seq, A)

\* C14 on files of numbers: a file in which a record of marker 9 stands between
\* two records of marker 7 that are out of time order has been summarized
C14_NumericFileSummarized ==
    /\ Lacking(csv_input) = {} /\ Len(csv_input.rows) = 3
    /\ csv_input.rows[1].marker_id = 7 /\ csv_input.rows[2].marker_id = 9
    /\ csv_input.rows[3].marker_id = 7
    /\ csv_input.rows[1].timestamp > csv_input.rows[3].timestamp
    /\ Summarized = {7, 9}

\* C15: a returned table has as many rows as the marker's stored sequence, and its
\* row i carries the fields of stored sample i, with and without smoothing.
C15_SeriesAlignedWithSamples ==
    \A mid \in Returned :
        /\ Len(ret.value[mid]) = Len(markers[mid])
        /\ \A i \in 1..Len(markers[mid]) :
               \A c \in DOMAIN markers[mid][i] :
                   ret.value[mid][i][c] = markers[mid][i][c]

\* a smoothed table of LongLen rows, two of them sharing a timestamp
C15_Witness ==
    /\ 9 \in Returned
    /\ Len(ret.value[9]) = LongLen
    /\ \E i \in 2..LongLen : ZeroDt(markers[9], i)
    /\ "speed_raw" \in DOMAIN ret.value[9][1]
    /\ ret.value[9][LongLen].x = 1

\* C16: in every returned table cumulative_distance is 0 in the first row.
C16_CumulativeDistanceStartsAtZero ==
    \A mid \in Returned :
        Len(ret.value[mid]) >= 1 => ret.value[mid][1].cumulative_distance = Q(0)

\* C17: in every returned table the acceleration components of the third and later
\* rows are the difference of the velocity component to the row before over dt, and
\* the acceleration components and magnitude of the first two rows are NaN.
C17_AccelerationFromVelocityDifference ==
    \A mid \in Returned :
        LET T == ret.value[mid] IN
        /\ \A i \in 3..Len(T) :
               /\ T[i].ax = Div(Sub(T[i].vx, T[i - 1].vx), T[i].dt)
               /\ T[i].ay = Div(Sub(T[i].vy, T[i - 1].vy), T[i].dt)
               /\ T[i].az = Div(Sub(T[i].vz, T[i - 1].vz), T[i].dt)
        /\ \A i \in 1..Len(T) :
               i <= 2 => /\ IsNaN(T[i].ax) /\ IsNaN(T[i].ay) /\ IsNaN(T[i].az)
                         /\ IsNaN(T[i].acceleration)

\* C17, for the values before smoothing: the components as above, and the
\* unsmoothed magnitude of the first two rows is NaN.
C17_HoldsBeforeSmoothing ==
    \A mid \in Returned :
        LET T == ret.value[mid] IN
        /\ \A i \in 3..Len(T) :
               /\ T[i].ax = Div(Sub(T[i].vx, T[i - 1].vx), T[i].dt)
               /\ T[i].ay = Div(Sub(T[i].vy, T[i - 1].vy), T[i].dt)
               /\ T[i].az = Div(Sub(T[i].vz, T[i - 1].vz), T[i].dt)
        /\ \A i \in 1..Len(T) :
               i <= 2 => /\ IsNaN(T[i].ax) /\ IsNaN(T[i].ay) /\ IsNaN(T[i].az)
                         /\ IsNaN(RawAcceleration(T[i]))

\* the channels the smoothing is applied to
SmoothCols == {"speed", "acceleration", "angular_speed", "rx_deg", "ry_deg", "rz_deg"}
\* sqrt(a^2 + b^2 + c^2)
Norm3(a, b, c) == Sqrt(Add(Add(Square(a), Square(b)), Square(c)))
\* the value of channel c of row i before any smoothing, from the row's velocity,
\* acceleration and angular velocity components and from the stored rotation
Unsmoothed(row, sample, c) ==
    IF c = "speed" THEN Norm3(row.vx, row.vy, row.vz)
    ELSE IF c = "acceleration" THEN Norm3(row.ax, row.ay, row.az)
    ELSE IF c = "angular_speed" THEN Norm3(row.omega_x, row.omega_y, row.omega_z)
    ELSE IF c = "rx_deg" THEN Mul(Q(sample.rx), Q(180))
    ELSE IF c = "ry_deg" THEN Mul(Q(sample.ry), Q(180))
    ELSE Mul(Q(sample.rz), Q(180))
\* the six raw columns
RawCols == { "speed_raw", "acceleration_raw", "angular_speed_raw",
             "rx_deg_raw", "ry_deg_raw", "rz_deg_raw" }
RawName(c) ==
    IF c = "speed" THEN "speed_raw"
    ELSE IF c = "acceleration" THEN "acceleration_raw"
    ELSE IF c = "angular_speed" THEN "angular_speed_raw"
    ELSE IF c = "rx_deg" THEN "rx_deg_raw"
    ELSE IF c = "ry_deg" THEN "ry_deg_raw"
    ELSE "rz_deg_raw"

\* C18: the unsmoothed values of speed, acceleration, angular_speed, rx_deg, ry_deg
\* and rz_deg are in every returned table: when smoothing was asked for and the
\* table has more than `window` rows, in the six _raw columns, and otherwise in
\* the six channels themselves, the table then having no _raw column.
C18_RawValuesKept ==
    \A mid \in Returned :
        LET T == ret.value[mid]
            applied == ret.smooth /\ Len(T) > ret.window
        IN  \A i \in 1..Len(T) :
                /\ applied => RawCols \subseteq DOMAIN T[i]
                /\ ~applied => RawCols \cap DOMAIN T[i] = {}
                /\ \A c \in SmoothCols :
                       T[i][IF applied THEN RawName(c) ELSE c]
                           = Unsmoothed(T[i], markers[mid][i], c)

\* a table smoothed over a window of 5 in which a row's acceleration is not its
\* unsmoothed one, which acceleration_raw holds
C18_Witness ==
    /\ 9 \in Returned /\ ret.smooth /\ ret.window = DefaultWindow
    /\ \E i \in 3..Len(ret.value[9]) :
           /\ "acceleration_raw" \in DOMAIN ret.value[9][i]
           /\ IsFinite(ret.value[9][i].acceleration_raw)
           /\ ret.value[9][i].acceleration_raw /= Q(0)
           /\ ret.value[9][i].acceleration /= ret.value[9][i].acceleration_raw

\* a table of exactly `window` rows for which smoothing was asked: not smoothed
C18_AtWindowReached ==
    /\ 7 \in Returned /\ ret.smooth /\ Len(ret.value[7]) = ret.window
    /\ ret.value[7][2].speed = Q(1)

\* all samples of R share one timestamp
NoSpan(R) == \A i, j \in 1..Len(R) : R[i].timestamp = R[j].timestamp

C19_NoSpanGivesInfUnlessSmoothingRaises ==
    ret.op = "print_summary" =>
        \A mid \in Asked :
            NoSpan(markers[mid]) =>
                /\ ret.raised \in {"none", "LinAlgError"}
                /\ ret.raised = "LinAlgError" =>
                       \E m \in Asked : Len(markers[m]) > DefaultWindow
                /\ ret.raised = "none" =>
                       /\ mid \in DOMAIN ret.value
                       /\ ret.value[mid].duration = Q(0)
                       /\ ret.value[mid].sample_rate = PosInf

\* the summary of marker 7, two samples at one timestamp and two places, and of
\* marker 9, a single sample
C19_Witness ==
    /\ Summarized = {7, 9}
    /\ Len(markers[7]) = 2 /\ NoSpan(markers[7]) /\ markers[7][1].x /= markers[7][2].x
    /\ Len(markers[9]) = 1

\* C20: the total distance of a summary is cumulative_distance in the last row of
\* the series and is the sum of the step distances of the marker.
C20_TotalDistanceIsSumOfSteps ==
    \A mid \in Summarized :
        LET T == Derive(markers[mid], DefaultSmooth, DefaultWindow).table IN
        /\ ret.value[mid].total_dist = T[Len(T)].cumulative_distance
        /\ ret.value[mid].total_dist = StepSum(T, Len(T))

\* C20, for the markers that hold two or more samples: the total distance is
\* cumulative_distance in the last row and the sum of the step distances; for
\* every marker it is cumulative_distance in the last row.
C20_HoldsFromTwoSamples ==
    \A mid \in Summarized :
        LET T == Derive(markers[mid], DefaultSmooth, DefaultWindow).table IN
        /\ ret.value[mid].total_dist = T[Len(T)].cumulative_distance
        /\ Len(T) >= 2 => ret.value[mid].total_dist = StepSum(T, Len(T))


-----------------------------------------------------------------------------
(* Properties of the live tracker: stored order, toggles and the save at exit *)

\* the positions of the samples of marker mid in the store, in insertion order
PositionsOf(data, mid) == { i \in 1..Len(data) : data[i].marker_id = mid }
\* the samples a step appended to the store
Appended(before, after) == SubSeq(after, Len(before) + 1, Len(after))
\* the pose fields of a sample are those of detection d
PoseOf(sample, d) ==
    /\ sample.marker_id = d.marker_id
    /\ <<sample.x, sample.y, sample.z>> = d.tvec
    /\ <<sample.rx, sample.ry, sample.rz>> = d.rvec

\* C22: with a wall clock that never goes back, every stored timestamp is
\* non-negative and, within one marker, timestamps are non-decreasing in
\* insertion order.
C22_TimestampsNonNegativeNonDecreasing ==
    /\ \A i \in 1..Len(trajectory_data) : trajectory_data[i].timestamp >= 0
    /\ \A i, j \in 1..Len(trajectory_data) :
           (i < j /\ trajectory_data[i].marker_id = trajectory_data[j].marker_id)
               => trajectory_data[i].timestamp <= trajectory_data[j].timestamp

\* marker 7 was stored three times in one episode, at a timestamp of zero, at the
\* same timestamp again or a later one, and at a later one still
C22_Witness ==
    \E i, j, k \in PositionsOf(trajectory_data, 7) :
        /\ i < j /\ j < k
        /\ trajectory_data[i].timestamp = 0
        /\ trajectory_data[j].timestamp < trajectory_data[k].timestamp

\* C24: the stored frame indices are non-decreasing in insertion order and each
\* is at least 1; the counter they are taken from never falls below a stored
\* index, because it is reset only in the step that empties the store.
C24_FrameIndicesNonDecreasing ==
    /\ \A i \in 1..Len(trajectory_data) :
           /\ trajectory_data[i].frame >= 1
           /\ trajectory_data[i].frame <= frame_count
    /\ \A i, j \in 1..Len(trajectory_data) :
           i < j => trajectory_data[i].frame <= trajectory_data[j].frame

\* a second episode whose start reset the counter while samples were stored: its
\* first frame is stored as frame 1 although the loop has read more frames
C24_Witness ==
    /\ episode >= 2 /\ discarded > 0 /\ Len(trajectory_data) >= 2
    /\ trajectory_data[1].frame = 1
    /\ frame_count < total_frames

\* C25: the tracker starts Idle with an empty store and no recording start time;
\* the recording flag changes in exactly the steps that handle SPACE, where it
\* flips; and whenever the flag is set the recording start time is set.
C25_ToggleFlipsRecording ==
    [][/\ pc = "start" => (~recording /\ trajectory_data = <<>>
                              /\ recording_start_time = Unset)
       /\ (\E d \in Ticks : KeySpace(d)) <=> (recording' = ~recording)
       /\ recording' => recording_start_time' /= Unset]_vars

\* SPACE was pressed three times: Recording again, in a second episode, after an
\* Idle stretch in which the first episode's start time stayed set
C25_Witness ==
    episode = 2 /\ recording /\ pc = "frame" /\ recording_start_time /= Unset

\* C26: a frame processed while Recording appends exactly one sample per
\* detection of that frame, the i-th appended sample carrying the pose of the i-th
\* detection, all with one timestamp and with the frame index of that frame; a
\* frame with no detection appends nothing; neither raises.
C26_OneSamplePerDetection ==
    [][(recording /\ total_frames' = total_frames + 1) =>
          LET added == Appended(trajectory_data, trajectory_data') IN
          /\ error' = "none" /\ pc' = "key"
          /\ SubSeq(trajectory_data', 1, Len(trajectory_data)) = trajectory_data
          /\ Len(added) = Len(detections')
          /\ detected' <=> Len(detections') > 0
          /\ \A i \in 1..Len(added) :
                 /\ PoseOf(added[i], detections'[i])
                 /\ added[i].frame = frame_count'
                 /\ added[i].timestamp = added[1].timestamp]_vars

\* while Recording a frame in which marker 9 was detected before marker 7 was
\* stored after a frame with no detection: the store ends with markers 9 and 7 of
\* one frame, in that order, and frame 1 is absent
C26_Witness ==
    /\ recording /\ pc = "key" /\ detected /\ Len(trajectory_data) >= 2
    /\ Len(detections) = 2
    /\ detections[1].marker_id = 9 /\ detections[2].marker_id = 7
    /\ LET n == Len(trajectory_data) IN
       /\ trajectory_data[n - 1].marker_id = 9 /\ trajectory_data[n].marker_id = 7
       /\ trajectory_data[n - 1].frame = trajectory_data[n].frame
       /\ trajectory_data[1].frame > 1

\* the loop is left in this step: by Q, or by a camera read that fails
LoopEnds == pc \in {"frame", "key"} /\ pc' \in {"done", "crashed"}

\* C29: when the loop ends the CSV file is written exactly if trajectory_data is
\* non-empty at that moment, Recording or Idle, and then holds one row per stored
\* sample; save_trajectory on an empty store writes no file and returns False.
C29_SavedIffNonEmpty ==
    [][LoopEnds =>
          /\ (csv_file' /= NoFile) <=> (trajectory_data /= <<>>)
          /\ trajectory_data /= <<>> =>
                 /\ csv_file'.columns = Fieldnames
                 /\ Len(csv_file'.rows) = Len(trajectory_data)
          /\ SaveTrajectory(<<>>, csv_file) = NoFile
          /\ ~SaveReturns(<<>>)]_vars

\* the loop was left while Idle, after a recording: the samples kept since the
\* Recording->Idle toggle are in the file
C29_Witness ==
    /\ pc = "done" /\ ~recording /\ episode >= 1
    /\ csv_file /= NoFile /\ Len(csv_file.rows) >= 2
    /\ Len(csv_file.rows) = Len(trajectory_data)

-----------------------------------------------------------------------------
(* Properties of a saved store read back *)

\* the samples of marker mid in a store, in insertion order
RECURSIVE SamplesOf(_, _)
SamplesOf(data, mid) ==
    IF data = <<>> THEN <<>>
    ELSE (IF data[1].marker_id = mid THEN <<data[1]>> ELSE <<>>)
             \o SamplesOf(Tail(data), mid)
\* within each marker the timestamps of a store grow strictly
StrictlyIncreasing(data) ==
    \A i, j \in 1..Len(data) :
        (i < j /\ data[i].marker_id = data[j].marker_id)
            => data[i].timestamp < data[j].timestamp
\* the digits repr() prints for every float of a store are 15 or fewer
ShortDecimals(data) ==
    \A i \in 1..Len(data) : NumDigits(data[i].x.int) + Len(data[i].x.frac) <= 15

\* C30: a store whose timestamps grow strictly within each marker, saved and
\* loaded, gives for each marker exactly the saved samples, all nine fields, in
\* the saved order.
C30_RoundTripIsExact ==
    (pc = "loaded" /\ StrictlyIncreasing(trajectory_data)) =>
        /\ DOMAIN markers = { trajectory_data[i].marker_id :
                                i \in 1..Len(trajectory_data) }
        /\ \A mid \in DOMAIN markers :
               markers[mid] = SamplesOf(trajectory_data, mid)

\* C30, for the stores whose floats repr() prints with 15 digits or fewer: the
\* loaded samples are the saved ones
C30_HoldsForShortDecimals ==
    (pc = "loaded" /\ StrictlyIncreasing(trajectory_data)
        /\ ShortDecimals(trajectory_data)) =>
        /\ DOMAIN markers = { trajectory_data[i].marker_id :
                                i \in 1..Len(trajectory_data) }
        /\ \A mid \in DOMAIN markers :
               markers[mid] = SamplesOf(trajectory_data, mid)

-----------------------------------------------------------------------------
(* Properties of the analyzer: what a load stores *)

\* how often row r occurs in a sequence of rows
Occurrences(rows, r) == Cardinality({ i \in 1..Len(rows) : rows[i] = r })
\* the last call was a load_data that found every required column
LoadedWell == ret.op = "load_data" /\ Lacking(csv_input) = {}
\* the marker ids of the rows of a file
IdsOf(file) == { file.rows[i].marker_id : i \in 1..Len(file.rows) }
\* marker mid holds each row of the file that carries its id as often as the
\* file does, and no other row
HoldsItsRows(mid) ==
    /\ \A i \in 1..Len(csv_input.rows) :
           LET r == csv_input.rows[i] IN
           Occurrences(markers[mid], r) =
               IF r.marker_id = mid THEN Occurrences(csv_input.rows, r) ELSE 0
    /\ \A i \in 1..Len(markers[mid]) : Occurrences(csv_input.rows, markers[mid][i]) > 0

\* C28: after a successful load the marker ids of the store are exactly the
\* distinct marker ids of the input, and every input row is held exactly once,
\* under its own marker id.
C28_StoreHoldsExactlyTheInput ==
    LoadedWell =>
        /\ DOMAIN markers = IdsOf(csv_input)
        /\ \A mid \in DOMAIN markers : HoldsItsRows(mid)

\* C28, for the markers of the input: after a successful load every marker id of
\* the input is in the store and holds exactly the input rows of that id.
C28_HoldsForIdsOfInput ==
    LoadedWell =>
        /\ IdsOf(csv_input) \subseteq DOMAIN markers
        /\ \A mid \in IdsOf(csv_input) : HoldsItsRows(mid)

-----------------------------------------------------------------------------
(* Properties of calculate_metrics called again and again *)

\* a smoothing configuration that meets the precondition: an odd window of 3 or
\* more, above the polynomial order
ValidConfig(window) == window >= 3 /\ window % 2 = 1 /\ PolyOrder < window
\* the last call was a calculate_metrics with smoothing and an invalid window
InvalidCall == ret.op = "calculate_metrics" /\ ret.smooth /\ ~ValidConfig(ret.window)
\* the markers the last call went through
Went == IF ret.marker_id /= Unset THEN {ret.marker_id} \cap DOMAIN markers
        ELSE DOMAIN markers

\* C21: calculate_metrics called with smoothing and a window that is not an odd
\* integer of 3 or more, or not above the polynomial order, fails with a
\* configuration error, for every sequence length.
C21_InvalidWindowFails ==
    InvalidCall => ret.raised = "ValueError"

\* C21, for the sequences that are longer than the window: the call fails with
\* the ValueError of savgol_filter and returns no table; when no sequence is
\* longer than the window it returns the unsmoothed tables and raises nothing.
C21_FailsOnlyWhenSmoothingApplies ==
    InvalidCall =>
        IF \E mid \in Went : Len(markers[mid]) > ret.window
        THEN ret.raised = "ValueError" /\ ret.value = <<>>
        ELSE /\ ret.raised = "none"
             /\ DOMAIN ret.value = Went
             /\ \A mid \in Went : \A i \in 1..Len(ret.value[mid]) :
                    "speed_raw" \notin DOMAIN ret.value[mid][i]

\* C27: calculate_metrics leaves the table and the per-marker sequences of the
\* analyzer as they were, after a load and after any other call, with and
\* without smoothing; and a call that follows a call with the same arguments,
\* both returning, returns the same tables.
C27_CallsLeaveStoreUnchanged ==
    [][ret'.op = "calculate_metrics" =>
          /\ markers' = markers /\ df' = df /\ csv_input' = csv_input
          /\ (/\ ret.op = "calculate_metrics"
              /\ <<ret'.marker_id, ret'.smooth, ret'.window>> =
                     <<ret.marker_id, ret.smooth, ret.window>>
              /\ ret.raised = "none" /\ ret'.raised = "none")
                 => ret'.value = ret.value]_vars

\* a smoothed call on a long recording: the series of marker 9 came back
\* smoothed, row for row, and the analyzer still holds the rows as loaded
C27_Witness ==
    /\ ret.op = "calculate_metrics" /\ ret.raised = "none" /\ ret.smooth
    /\ 9 \in DOMAIN ret.value /\ Len(markers[9]) > ret.window
    /\ "speed_raw" \in DOMAIN ret.value[9][1]
    /\ "speed_raw" \notin DOMAIN markers[9][1]
    /\ Len(ret.value[9]) = Len(markers[9])

-----------------------------------------------------------------------------
(* Properties of the offline tracker *)

\* within each marker the timestamps of a store never decrease along the store
NonDecreasingPerMarker(data) ==
    \A i, j \in 1..Len(data) :
        (i < j /\ data[i].marker_id = data[j].marker_id)
            => Leq(data[i].timestamp, data[j].timestamp)

\* C23: after any sequence of process_video calls on one tracker, the timestamps
\* of each marker's samples in trajectory_data are non-decreasing in insertion
\* order, and the saved file holds the samples in that order.
C23_VideoTimestampsNonDecreasing ==
    /\ NonDecreasingPerMarker(off_data)
    /\ off_pc = "returned" =>
           off_csv = SaveVideoTrajectory(off_data, NoFile)

\* C23, for the first video a tracker processes: its timestamps are
\* non-decreasing within each marker, and every file written holds the whole
\* store in insertion order.
C23_HoldsForFirstVideo ==
    /\ videos <= 1 => NonDecreasingPerMarker(off_data)
    /\ off_pc = "returned" =>
           off_csv = SaveVideoTrajectory(off_data, NoFile)

=============================================================================
